---- MODULE Spec2Model ----
(***************************************************************************)
(* The cocoa supply-chain dashboard of src/app.py as a state machine.     *)
(*                                                                         *)
(* One Streamlit script run (the file executed top to bottom) is one       *)
(* action.  The state that outlives a run is the geocode cache file, the   *)
(* st.cache_data memo of load_geocode_cache and the spreadsheet; the rest  *)
(* of the variables record what the last run computed.                     *)
(*                                                                         *)
(* The names os, np and GEOCODE_CACHE_PATH, which the file uses without    *)
(* binding them, are read as the os module, numpy, and one fixed path.     *)
(*                                                                         *)
(* Text cells are sequences of one-character strings, so that strip,       *)
(* lower, concatenation and the regular expression of the place key are    *)
(* computed rather than assumed.                                           *)
(***************************************************************************)
EXTENDS Integers, Sequences, FiniteSets, TLC

VARIABLES
    data,         \* the spreadsheet rows, as load_data() returns them
    disk,         \* the rows of the geocode cache CSV file (<<>>: no file)
    memo,         \* st.cache_data entry of load_geocode_cache(path)
    geo_loaded,   \* geo_cache as loaded at line 60 of the last run
    geo_cache,    \* geo_cache at the end of the last run
    attached0,    \* df after the first attach (line 63) of the last run
    attached,     \* df after the pass and reattach (line 97), before dropna
    df,           \* the working set: df after dropna and volume coercion
    criteria,     \* the widget values of the last run
    filtered_df,  \* the filter output of the last run
    crashed,      \* the last run raised before the filter was applied
    pc,           \* "idle": no run in progress; "widgets": a run is at line 119
    do_geocode,   \* the button value of the last run
    passLog,      \* the geocoder calls of the last run: <<[place, outcome]>>
    saved,        \* the last run wrote the cache file
    diskBefore,   \* the cache file as the last run found it
    lookups,      \* per place key: geocoder calls since Init
    prevRun,      \* the run before the last one, if in the same process
    ran,          \* the script has run since Init
    passes        \* geocoding passes since Init

vars == <<data, disk, memo, geo_loaded, geo_cache, attached0, attached, df,
          criteria, filtered_df, crashed, pc, do_geocode, passLog, saved,
          diskBefore, lookups, prevRun, ran, passes>>

----------------------------------------------------------------------------
(* Bounds of the model *)

MaxRecords == 3
MaxPasses == 2
MaxTouched == 2

----------------------------------------------------------------------------
(* Values *)

\* A missing value of an object or float column (np.nan, a blank cell).
NaN == "NaN"
\* A blank text cell, and the missing value of the place column, as a
\* sequence so that it compares with text.
BlankCell == <<"<NaN>">>

Space == " "

RECURSIVE LStrip(_)
LStrip(s) == IF s # <<>> /\ Head(s) = Space THEN LStrip(Tail(s)) ELSE s

RECURSIVE RStrip(_)
RStrip(s) ==
    IF s # <<>> /\ s[Len(s)] = Space THEN RStrip(SubSeq(s, 1, Len(s) - 1)) ELSE s

\* str.strip()
Strip(s) == RStrip(LStrip(s))

LowerChar(c) ==
    CASE c = "Y" -> "y"
      [] c = "N" -> "n"
      [] c = "E" -> "e"
      [] c = "S" -> "s"
      [] c = "O" -> "o"
      [] OTHER -> c

\* str.lower()
Lower(s) == [i \in 1..Len(s) |-> LowerChar(s[i])]

\* .astype(str) of a cell: a blank cell becomes the text "nan"
AsTypeStr(c) == IF c = BlankCell THEN <<"n", "a", "n">> ELSE c

----------------------------------------------------------------------------
(* The spreadsheet *)

Txt_Ac == <<"A", "c">>
Txt_PadAc == <<" ", "A", "c">>
Txt_Nw == <<"N", "w">>
Txt_G == <<"G">>
Txt_Blank == <<" ">>

\* A Volume cell: a number, or text that is no number (blank included).
NumCell(n) == [numeric |-> TRUE, value |-> n]
TextCell == [numeric |-> FALSE, value |-> 0]

\* The rows a spreadsheet is drawn from.  The last has an empty City cell and
\* a Country cell holding one space: its place key is the text "nan".
Catalogue ==
    << [Company |-> "A", Role |-> "Trader", Country |-> Txt_G, City |-> Txt_Ac,
        Volume |-> NumCell(50000), CustomerYN |-> <<"Y">>],
       [Company |-> "B", Role |-> "Trader", Country |-> Txt_G, City |-> Txt_PadAc,
        Volume |-> TextCell, CustomerYN |-> BlankCell],
       [Company |-> "C", Role |-> NaN, Country |-> Txt_Nw, City |-> Txt_Nw,
        Volume |-> NumCell(20000), CustomerYN |-> <<"m">>],
       [Company |-> NaN, Role |-> "Processor", Country |-> Txt_Blank, City |-> BlankCell,
        Volume |-> NumCell(30000), CustomerYN |-> <<" ", "Y", "E", "S">>] >>

\* The strictly increasing index sequences of length 1..n over 1..m
RECURSIVE Picks(_, _, _)
Picks(lo, m, n) ==
    IF n = 0 THEN {<<>>}
    ELSE {<<>>} \cup
         UNION {{<<i>> \o t : t \in Picks(i + 1, m, n - 1)} : i \in lo..m}

\* load_data(): a sheet of 1..MaxRecords rows of the catalogue
Datasets ==
    {[k \in 1..Len(ix) |-> Catalogue[ix[k]]] :
        ix \in Picks(1, Len(Catalogue), MaxRecords) \ {<<>>}}

----------------------------------------------------------------------------
(* Normalisation, lines 37-57 *)

\* Customer (Y/N) -> Yes / No
NormalizeCustomer(raw) ==
    LET filled == IF raw = BlankCell THEN <<>> ELSE raw
        low == Lower(Strip(filled))
        rep == IF low = <<>> \/ low = <<"n", "a", "n">> THEN <<"n", "o">> ELSE low
    IN  IF rep \in {<<"y">>, <<"y", "e", "s">>, <<"1">>, <<"t", "r", "u", "e">>}
        THEN "Yes"
        ELSE "No"

\* alternative ^,\s* of the pattern
StripLeadingComma(s) ==
    IF s # <<>> /\ Head(s) = "," THEN LStrip(Tail(s)) ELSE s

\* alternative ,\s*$ of the pattern
StripTrailingComma(s) ==
    LET r == RStrip(s)
    IN  IF r # <<>> /\ r[Len(r)] = "," THEN SubSeq(r, 1, Len(r) - 1) ELSE s

\* (City + ", " + Country).str.replace(r"^,\s*|,\s*$", "", regex=True)
PlaceKey(city, country) ==
    StripTrailingComma(StripLeadingComma(city \o <<",", " ">> \o country))

NormalizeRow(row) ==
    LET city == Strip(AsTypeStr(row.City))
        country == Strip(AsTypeStr(row.Country))
    IN  [Company |-> row.Company, Role |-> row.Role,
         Country |-> country, City |-> city,
         Volume |-> row.Volume,
         Customer |-> NormalizeCustomer(row.CustomerYN),
         place_key |-> PlaceKey(city, country)]

Normalize(rows) == [i \in 1..Len(rows) |-> NormalizeRow(rows[i])]

----------------------------------------------------------------------------
(* The geocode cache, lines 27-34 and 59-63 *)

\* The texts pandas.read_csv reads as a missing value (those over the
\* alphabet of the place keys).
CsvNaValues == {<<>>, <<"N", "A">>, <<"n", "a", "n">>}

\* DataFrame.to_csv of one row: a missing value is written as the empty field
ToCsvRow(r) ==
    [place |-> IF r.place = BlankCell THEN <<>> ELSE r.place,
     Latitude |-> IF r.Latitude = NaN THEN "" ELSE r.Latitude,
     Longitude |-> IF r.Longitude = NaN THEN "" ELSE r.Longitude]

\* pandas.read_csv of one row
ReadCsvRow(r) ==
    [place |-> IF r.place \in CsvNaValues THEN BlankCell ELSE r.place,
     Latitude |-> IF r.Latitude = "" THEN NaN ELSE r.Latitude,
     Longitude |-> IF r.Longitude = "" THEN NaN ELSE r.Longitude]

save_geocode_cache(df_cache) == [i \in 1..Len(df_cache) |-> ToCsvRow(df_cache[i])]

\* The body of load_geocode_cache: the file, or the empty frame without one
ReadCache(file) == [i \in 1..Len(file) |-> ReadCsvRow(file[i])]

NoMemo == [cached |-> FALSE, value |-> <<>>]

\* @st.cache_data: the body runs on the first call for a path only
load_geocode_cache(m, file) == IF m.cached THEN m.value ELSE ReadCache(file)

MemoAfterLoad(m, file) ==
    IF m.cached THEN m ELSE [cached |-> TRUE, value |-> ReadCache(file)]

\* cache_map.get(p, (np.nan, np.nan)): dict(zip(...)) keeps the last row of a key
CacheGet(gc, p) ==
    LET hits == {i \in 1..Len(gc) : gc[i].place = p}
    IN  IF hits = {} THEN [Latitude |-> NaN, Longitude |-> NaN]
        ELSE LET i == CHOOSE j \in hits : \A k \in hits : k <= j
             IN  [Latitude |-> gc[i].Latitude, Longitude |-> gc[i].Longitude]

AttachRow(row, gc) ==
    [Company |-> row.Company, Role |-> row.Role, Country |-> row.Country,
     City |-> row.City, Volume |-> row.Volume, Customer |-> row.Customer,
     place_key |-> row.place_key,
     Latitude |-> CacheGet(gc, row.place_key).Latitude,
     Longitude |-> CacheGet(gc, row.place_key).Longitude]

\* Attach gone wrong: only the first record of a place key gets the result
AttachFirstOnly(rows, gc) ==
    [i \in 1..Len(rows) |->
        IF \E j \in 1..(i - 1) : rows[j].place_key = rows[i].place_key
        THEN AttachRow(rows[i], <<>>)
        ELSE AttachRow(rows[i], gc)]

\* df["Latitude"], df["Longitude"] = place_key mapped through cache_map
Attach(rows, gc) == [i \in 1..Len(rows) |-> AttachRow(rows[i], gc)]

----------------------------------------------------------------------------
(* The geocoding pass, lines 71-97 *)

\* Where the geocoding service places a query, when it finds it
Gazetteer(p) ==
    CASE p = <<"A", "c", ",", " ", "G">> -> [latitude |-> "5.6", longitude |-> "-0.2"]
      [] p = <<"N", "w", ",", " ", "N", "w">> -> [latitude |-> "9.1", longitude |-> "7.4"]
      [] OTHER -> [latitude |-> "-22.6", longitude |-> "17.1"]

\* geocode(p) returns a location, returns None, or raises
OutcomeKinds == {"found", "none", "error"}

IsMissing(row) == row.Latitude = NaN \/ row.Longitude = NaN

\* .unique(): the first occurrence of each value, in order
RECURSIVE Unique(_)
Unique(s) ==
    IF s = <<>> THEN <<>>
    ELSE LET init == Unique(SubSeq(s, 1, Len(s) - 1))
             x == s[Len(s)]
         IN  IF \E i \in 1..Len(init) : init[i] = x THEN init ELSE Append(init, x)

\* df.loc[Latitude.isna() | Longitude.isna(), "place_key"].dropna().unique().tolist()
missing_places(rows) ==
    LET sel == SelectSeq(rows, IsMissing)
    IN  Unique([i \in 1..Len(sel) |-> sel[i].place_key])

\* The row the loop body appends for place p
NewRow(p, kind) ==
    IF kind = "found"
    THEN [place |-> p, Latitude |-> Gazetteer(p).latitude,
          Longitude |-> Gazetteer(p).longitude]
    ELSE [place |-> p, Latitude |-> NaN, Longitude |-> NaN]

\* The loop gone wrong: an exception of the geocoder ends it
NewRowsAbort(places, out) ==
    LET errs == {i \in 1..Len(places) : out[i] = "error"}
        n == IF errs = {} THEN Len(places)
             ELSE (CHOOSE i \in errs : \A j \in errs : i <= j) - 1
    IN  [i \in 1..n |-> NewRow(places[i], out[i])]

\* new_rows after the loop, the geocoder answering out[i] for the i-th place
new_rows(places, out) == [i \in 1..Len(places) |-> NewRow(places[i], out[i])]

\* .drop_duplicates(subset=["place"], keep="last")
DropDuplicatesLast(rows) ==
    LET keep == {i \in 1..Len(rows) :
                    \A j \in (i + 1)..Len(rows) : rows[j].place # rows[i].place}
        F[i \in 0..Len(rows)] ==
            IF i = 0 THEN <<>>
            ELSE IF i \in keep THEN Append(F[i - 1], rows[i]) ELSE F[i - 1]
    IN  F[Len(rows)]

\* lines 89-91: geo_cache after the pass
CacheAfterPass(gc, rows) ==
    IF rows # <<>> THEN DropDuplicatesLast(gc \o rows) ELSE gc

----------------------------------------------------------------------------
(* The working set and the filter, lines 99-155 *)

\* pd.to_numeric(errors="coerce"): <<v>> is the number v, <<>> is NaN
to_numeric(cell) == IF cell.numeric THEN <<cell.value>> ELSE <<>>

HasCoords(row) == row.Latitude # NaN /\ row.Longitude # NaN

\* dropna gone wrong: nothing is dropped
DropNothing(rows) == rows

\* df.dropna(subset=["Latitude", "Longitude"], inplace=True)
DropNa(rows) == SelectSeq(rows, HasCoords)

CoerceVolume(rows) ==
    [i \in 1..Len(rows) |-> [rows[i] EXCEPT !.Volume = to_numeric(rows[i].Volume)]]

\* df at line 117
WorkingSet(rows) == CoerceVolume(DropNa(rows))

\* sorted(df[col].dropna().unique()), as a set
available_roles(rows) == {rows[i].Role : i \in 1..Len(rows)} \ {NaN}
\* Country is text after astype(str): it holds no missing value
available_countries(rows) == {rows[i].Country : i \in 1..Len(rows)}
available_companies(rows) == {rows[i].Company : i \in 1..Len(rows)} \ {NaN}

\* A multiselect value: "All" ticked or not, and the concrete options picked
Selections(avail) == [all : BOOLEAN, picked : SUBSET avail]

DefaultSelection == [all |-> TRUE, picked |-> {}]

\* The rule gone wrong: an empty selection selects nothing
EffectiveStrict(sel, avail) == IF sel.all THEN avail ELSE sel.picked

\* available if "All" in selected or not selected else selected
Effective(sel, avail) ==
    IF sel.all \/ sel.picked = {} THEN avail ELSE sel.picked

Volumes(rows) == {rows[i].Volume[1] : i \in {j \in 1..Len(rows) : rows[j].Volume # <<>>}}

Min(S) == CHOOSE x \in S : \A y \in S : x <= y
Max(S) == CHOOSE x \in S : \A y \in S : y <= x

\* step of the volume slider
SliderStep == 10000

\* the values the slider offers between volume_min and volume_max (the one
\* value volume_min when the two are equal)
SliderValues(rows) ==
    LET lo == Min(Volumes(rows))
        hi == Max(Volumes(rows))
    IN  {lo + k * SliderStep : k \in 0..((hi - lo) \div SliderStep)}

\* The mask gone wrong: the isna() alternative is lost
VolumeMaskStrict(v, threshold) == v # <<>> /\ v[1] >= threshold

\* Volume.isna() | (Volume >= volume_threshold)
VolumeMask(v, threshold) == v = <<>> \/ v[1] >= threshold

\* the boolean mask of lines 146-151
Mask(row, rows, c) ==
    /\ row.Role \in Effective(c.roles, available_roles(rows))
    /\ row.Country \in Effective(c.countries, available_countries(rows))
    /\ row.Company \in Effective(c.companies, available_companies(rows))
    /\ VolumeMask(row.Volume, c.volume_threshold)

\* lines 154-155
CustomerMask(row, c) == c.customer = "All" \/ row.Customer = c.customer

Passes(row, rows, c) == Mask(row, rows, c) /\ CustomerMask(row, c)

\* filtered_df
Filter(rows, c) ==
    LET F[i \in 0..Len(rows)] ==
            IF i = 0 THEN <<>>
            ELSE IF Passes(rows[i], rows, c) THEN Append(F[i - 1], rows[i])
                 ELSE F[i - 1]
    IN  F[Len(rows)]

\* int(df["Volume (tons/year)"].min(skipna=True)) raises on NaN: no row, or
\* no row with a numeric volume
SliderRaises(rows) == Volumes(rows) = {}

NoCriteria ==
    [roles |-> DefaultSelection, countries |-> DefaultSelection,
     companies |-> DefaultSelection, customer |-> "All", volume_threshold |-> 0]

\* the values left for a widget once used widgets are off their defaults:
\* a user moves at most MaxTouched widgets in one rerun
Choices(values, default, used) == IF used < MaxTouched THEN values ELSE {default}

Cost(value, default) == IF value = default THEN 0 ELSE 1

----------------------------------------------------------------------------
(* The script run *)

PlaceKeys(rows) == {NormalizeRow(rows[i]).place_key : i \in 1..Len(rows)}

NoRun == [ran |-> FALSE, pass |-> FALSE, resolvedAll |-> FALSE]

\* The process has started and the script has not run yet.
Fresh ==
    /\ memo = NoMemo
    /\ geo_loaded = <<>>
    /\ geo_cache = <<>>
    /\ attached0 = <<>>
    /\ attached = <<>>
    /\ df = <<>>
    /\ criteria = NoCriteria
    /\ filtered_df = <<>>
    /\ crashed = FALSE
    /\ pc = "idle"
    /\ do_geocode = FALSE
    /\ passLog = <<>>
    /\ saved = FALSE
    /\ diskBefore = disk
    /\ lookups = [p \in PlaceKeys(data) |-> 0]
    /\ prevRun = NoRun
    /\ ran = FALSE
    /\ passes = 0

\* A first start: no cache file yet
Init ==
    /\ data \in Datasets
    /\ disk = <<>>
    /\ Fresh

\* Lines 1-117 of one execution of the script, the button reading click and
\* the geocoder answering out[i] for the i-th place it is asked.
StartRun(click) ==
    LET base == Normalize(data)
        gc0 == load_geocode_cache(memo, disk)
        at0 == Attach(base, gc0)
        places == IF click THEN missing_places(at0) ELSE <<>>
    IN  \E out \in [1..Len(places) -> OutcomeKinds] :
        LET rows == new_rows(places, out)
            gc1 == IF click THEN CacheAfterPass(gc0, rows) ELSE gc0
            at1 == IF click THEN Attach(base, gc1) ELSE at0
        IN  /\ pc = "idle"
            /\ pc' = "widgets"
            /\ memo' = MemoAfterLoad(memo, disk)
            /\ geo_loaded' = gc0
            /\ attached0' = at0
            /\ do_geocode' = click
            /\ passLog' = [i \in 1..Len(places) |->
                              [place |-> places[i], kind |-> out[i]]]
            /\ lookups' = [p \in DOMAIN lookups |->
                              lookups[p]
                              + Cardinality({i \in 1..Len(places) : places[i] = p})]
            /\ saved' = (click /\ rows # <<>>)
            /\ diskBefore' = disk
            /\ disk' = IF click /\ rows # <<>> THEN save_geocode_cache(gc1) ELSE disk
            /\ geo_cache' = gc1
            /\ attached' = at1
            /\ df' = WorkingSet(at1)
            /\ crashed' = FALSE
            /\ criteria' = NoCriteria
            /\ filtered_df' = <<>>
            /\ prevRun' = IF memo.cached
                           THEN [ran |-> TRUE, pass |-> do_geocode,
                                 resolvedAll |-> \A i \in 1..Len(attached) :
                                                    HasCoords(attached[i])]
                           ELSE NoRun
            /\ ran' = TRUE
            /\ UNCHANGED data

\* A rerun caused by a filter widget: the button reads False
Rerun ==
    /\ StartRun(FALSE)
    /\ UNCHANGED passes

\* The rerun caused by the button "Geocode missing City + Country"
GeocodeRun ==
    /\ passes < MaxPasses
    /\ StartRun(TRUE)
    /\ passes' = passes + 1

\* Lines 119-155 with the widgets reading c
FinishRun(c) ==
    /\ pc = "widgets"
    /\ pc' = "idle"
    /\ crashed' = SliderRaises(df)
    /\ criteria' = c
    /\ filtered_df' = IF SliderRaises(df) THEN <<>> ELSE Filter(df, c)
    /\ UNCHANGED <<data, disk, memo, geo_loaded, geo_cache, attached0, attached,
                   df, do_geocode, passLog, saved, diskBefore, lookups, prevRun,
                   ran, passes>>

\* The widget defaults: "All", "All", "All", customer "All", value=volume_min
DefaultWidgets(rows) ==
    [roles |-> DefaultSelection, countries |-> DefaultSelection,
     companies |-> DefaultSelection, customer |-> "All",
     volume_threshold |-> Min(Volumes(rows))]

\* The rest of a run whose filter widgets are left at their defaults
ApplyDefaultFilters ==
    FinishRun(IF SliderRaises(df) THEN NoCriteria ELSE DefaultWidgets(df))

\* The rest of a run, the widgets reading any values the user can set
ApplyFilters ==
    IF SliderRaises(df) THEN FinishRun(NoCriteria)
    ELSE
      LET D == DefaultSelection
          lo == Min(Volumes(df))
      IN  \E r \in Choices(Selections(available_roles(df)), D, 0) :
          \E k \in Choices(Selections(available_countries(df)), D, Cost(r, D)) :
          \E m \in Choices(Selections(available_companies(df)), D,
                           Cost(r, D) + Cost(k, D)) :
          \E u \in Choices({"All", "Yes", "No"}, "All",
                           Cost(r, D) + Cost(k, D) + Cost(m, D)) :
          \E t \in Choices(SliderValues(df), lo,
                           Cost(r, D) + Cost(k, D) + Cost(m, D) + Cost(u, "All")) :
              FinishRun([roles |-> r, countries |-> k, companies |-> m,
                         customer |-> u, volume_threshold |-> t])

\* The server process is restarted (or the caches are cleared): the
\* st.cache_data memo is gone, the cache file stays
Restart ==
    /\ pc = "idle"
    /\ memo.cached
    /\ memo' = NoMemo
    /\ UNCHANGED <<data, disk, geo_loaded, geo_cache, attached0, attached, df,
                   criteria, filtered_df, crashed, pc, do_geocode, passLog, saved,
                   diskBefore, lookups, prevRun, ran, passes>>

\* A session of geocoding passes, reruns and restarts
Next == Rerun \/ GeocodeRun \/ ApplyDefaultFilters \/ Restart

Spec == Init /\ [][Next]_vars

----------------------------------------------------------------------------
(* Filtering over a cache file left by an earlier session *)

\* The subsequences of s
RECURSIVE SubSeqs(_)
SubSeqs(s) ==
    IF s = <<>> THEN {<<>>}
    ELSE LET rest == SubSeqs(Tail(s))
         IN  rest \cup {<<Head(s)>> \o t : t \in rest}

\* The cache files a pass over a sheet holding some of the places of rows
\* writes
CacheFiles(rows) ==
    LET base == Normalize(rows)
        keys == Unique([i \in 1..Len(base) |-> base[i].place_key])
    IN  {save_geocode_cache(CacheAfterPass(<<>>, new_rows(places, out))) :
            places \in SubSeqs(keys),
            out \in [1..Len(keys) -> {"found", "none"}]}

InitFilter ==
    /\ data \in Datasets
    /\ disk \in CacheFiles(data)
    /\ Fresh

\* The user works the filter widgets; the geocode button is left alone
NextFilter == Rerun \/ ApplyFilters

SpecFilter == InitFilter /\ [][NextFilter]_vars

----------------------------------------------------------------------------
(* The claims *)

Rows(seq) == {seq[i] : i \in 1..Len(seq)}

HasEntry(gc, p) == \E j \in 1..Len(gc) : gc[j].place = p

AllResolved(rows) == \A i \in 1..Len(rows) : HasCoords(rows[i])

\* The last run went through the filter
FilterDone == ran /\ pc = "idle" /\ ~crashed

\* The last run was a geocoding pass
PassDone == ran /\ do_geocode

\* C1: a place key that has an entry in the cache the run loaded and
\* attached, a tombstone included, is not looked up by the pass of that run.
C1_CachedKeyNotLookedUp ==
    \A i \in 1..Len(passLog) : ~HasEntry(geo_loaded, passLog[i].place)

\* The headline of C1 alone: no place key is looked up twice.  It fails the
\* same way, and also within one process through the stale memo (see C8).
C1_AtMostOncePerKey == \A p \in DOMAIN lookups : lookups[p] <= 1

\* C2: after the cache is attached and after a pass, two records with the
\* same place key have the same latitude and the same longitude, both
\* present or both absent.
C2_SameKeySameCoords ==
    ran => \A rows \in {attached0, attached} :
               \A i, j \in 1..Len(rows) :
                   /\ (rows[i].Latitude = NaN) <=> (rows[i].Longitude = NaN)
                   /\ rows[i].place_key = rows[j].place_key
                        => /\ rows[i].Latitude = rows[j].Latitude
                           /\ rows[i].Longitude = rows[j].Longitude

\* A pass resolved two records that share a place key.
C2_Witness ==
    /\ PassDone
    /\ \E i, j \in 1..Len(attached) :
          /\ i # j
          /\ attached[i].place_key = attached[j].place_key
          /\ IsMissing(attached0[i])
          /\ HasCoords(attached[i])

\* C3: a pass that starts with every record resolved looks nothing up and
\* leaves the cache and the coordinates as they were; and a pass run right
\* after a pass that resolved every record looks nothing up.
C3_PassIdempotent ==
    /\ (PassDone /\ AllResolved(attached0))
          => /\ passLog = <<>>
             /\ disk = diskBefore
             /\ geo_cache = geo_loaded
             /\ attached = attached0
    /\ (PassDone /\ prevRun.pass /\ prevRun.resolvedAll) => passLog = <<>>

\* The first half of C3 alone
C3_ResolvedPassIsNoOp ==
    (PassDone /\ AllResolved(attached0))
        => /\ passLog = <<>>
           /\ disk = diskBefore
           /\ geo_cache = geo_loaded
           /\ attached = attached0

Unrestricted(sel) == sel.all \/ sel.picked = {}

\* The condition of C4 on one record
ClaimPasses(row, c) ==
    /\ Unrestricted(c.roles) \/ row.Role \in c.roles.picked
    /\ Unrestricted(c.countries) \/ row.Country \in c.countries.picked
    /\ Unrestricted(c.companies) \/ row.Company \in c.companies.picked
    /\ row.Volume = <<>> \/ row.Volume[1] >= c.volume_threshold
    /\ c.customer = "All" \/ row.Customer = c.customer

\* C4: a record of the working set is in the filter output exactly when its
\* role, country and company are selected or unrestricted, its volume is
\* absent or at least the minimum, and its customer flag matches the choice.
C4_FilterIff ==
    FilterDone => \A i \in 1..Len(df) :
                      (df[i] \in Rows(filtered_df)) <=> ClaimPasses(df[i], criteria)

\* C5: whatever the minimum volume, a record with an absent volume that
\* meets the role, country, company and customer conditions is in the
\* filter output.
C5_AbsentVolumeKept ==
    FilterDone => \A i \in 1..Len(df) :
        ( /\ df[i].Volume = <<>>
          /\ df[i].Role \in Effective(criteria.roles, available_roles(df))
          /\ df[i].Country \in Effective(criteria.countries, available_countries(df))
          /\ df[i].Company \in Effective(criteria.companies, available_companies(df))
          /\ criteria.customer = "All" \/ df[i].Customer = criteria.customer )
        => df[i] \in Rows(filtered_df)

\* The minimum volume is raised above the smallest volume, some record is
\* removed by it, and a record with an absent volume is in the output.
C5_Witness ==
    /\ FilterDone
    /\ criteria.volume_threshold > Min(Volumes(df))
    /\ \E i \in 1..Len(df) : df[i].Volume # <<>> /\ df[i] \notin Rows(filtered_df)
    /\ \E j \in 1..Len(filtered_df) : filtered_df[j].Volume = <<>>

EmptySelection == [all |-> FALSE, picked |-> {}]

\* C6: with an empty role selection the filter output is the output of the
\* "All" selection, the other widgets unchanged; the same for the country
\* and the company selection.
C6_EmptyIsAll ==
    FilterDone =>
        /\ criteria.roles = EmptySelection
              => filtered_df = Filter(df, [criteria EXCEPT !.roles = DefaultSelection])
        /\ criteria.countries = EmptySelection
              => filtered_df = Filter(df, [criteria EXCEPT !.countries = DefaultSelection])
        /\ criteria.companies = EmptySelection
              => filtered_df = Filter(df, [criteria EXCEPT !.companies = DefaultSelection])

\* A run with an emptied multiselect shows records.
C6_Witness ==
    /\ FilterDone
    /\ filtered_df # <<>>
    /\ \/ criteria.roles = EmptySelection
       \/ criteria.countries = EmptySelection
       \/ criteria.companies = EmptySelection

C8_LoadedIsPersisted == ran => geo_loaded = ReadCache(diskBefore)

EntriesOf(file, p) == {file[i] : i \in {j \in 1..Len(file) : file[j].place = p}}

\* C9: after a pass that wrote the cache file, the file holds at most one
\* row per place, the row of a place looked up in the pass is the row of
\* that pass, and the rows of every other place are as before the pass.
C9_LastWriteWins ==
    (PassDone /\ saved) =>
        /\ \A i, j \in 1..Len(disk) : disk[i].place = disk[j].place => i = j
        /\ \A i \in 1..Len(passLog) :
              EntriesOf(disk, passLog[i].place)
                 = {ToCsvRow(NewRow(passLog[i].place, passLog[i].kind))}
        /\ \A p \in {disk[i].place : i \in 1..Len(disk)}
                    \cup {diskBefore[i].place : i \in 1..Len(diskBefore)} :
              (\A i \in 1..Len(passLog) : passLog[i].place # p)
                 => EntriesOf(disk, p) = EntriesOf(diskBefore, p)

\* The record of the working set a record of the sheet becomes
Coerced(row) == [row EXCEPT !.Volume = to_numeric(row.Volume)]

\* C10: a record left without latitude or longitude is in neither the
\* working set nor the filter output, its values are offered by a filter
\* only if a placed record has them, and every record of the filter output
\* has both coordinates.
C10_UnplacedNeverShown ==
    FilterDone =>
        /\ \A j \in 1..Len(filtered_df) : HasCoords(filtered_df[j])
        /\ \A i \in 1..Len(attached) :
              IsMissing(attached[i])
                 => /\ Coerced(attached[i]) \notin Rows(df)
                    /\ Coerced(attached[i]) \notin Rows(filtered_df)
        /\ \A r \in criteria.roles.picked :
              \E i \in 1..Len(attached) : HasCoords(attached[i]) /\ attached[i].Role = r
        /\ \A m \in criteria.companies.picked :
              \E i \in 1..Len(attached) : HasCoords(attached[i]) /\ attached[i].Company = m
        /\ \A k \in criteria.countries.picked :
              \E i \in 1..Len(attached) : HasCoords(attached[i]) /\ attached[i].Country = k

\* The filter showed records while a record with a tombstoned place and a
\* record with no cache entry were left out.
C10_Witness ==
    /\ FilterDone
    /\ filtered_df # <<>>
    /\ \E i \in 1..Len(attached) :
          IsMissing(attached[i]) /\ HasEntry(geo_cache, attached[i].place_key)
    /\ \E i \in 1..Len(attached) :
          IsMissing(attached[i]) /\ ~HasEntry(geo_cache, attached[i].place_key)

====
